---- MODULE Spec2Model ----
(***************************************************************************)
(* Model of lestrrat-go/multifs (multifs.go): a mount table that binds     *)
(* path prefixes to backend filesystems, with Open / ReadDir / Stat        *)
(* resolving a caller path against the table.                              *)
(*                                                                         *)
(* A Go string is modelled as a sequence of one-character strings, so that *)
(* strings.HasPrefix, strings.TrimPrefix, strings.Index and path.Clean are *)
(* computed character by character, as the library computes them.          *)
(***************************************************************************)
EXTENDS Integers, Sequences, FiniteSets, TLC

VARIABLES mountPoints, fsmap, last, mu, proc

vars == <<mountPoints, fsmap, last, mu, proc>>

(***************************************************************************)
(* Bounds                                                                  *)
(***************************************************************************)
\* longest caller-supplied string that is enumerated exhaustively
MaxLen == 1
\* largest number of simultaneous bindings
MaxMounts == 3
\* number of goroutines calling the facade concurrently
NumProcs == 2

SLASH == "/"
DOT == "."

\* the characters of the exhaustively enumerated strings
Chars == {SLASH, "a"}

\* the backends handed to Mount (opaque fs.FS values)
Backends == {"X", "Y"}

\* caller strings exercising the "." and ".." rules of path.Clean:
\* ., .., /a/.., /a/./a
DotInputs ==
  { <<DOT>>, <<DOT, DOT>>,
    <<SLASH, "a", SLASH, DOT, DOT>>,
    <<SLASH, "a", SLASH, DOT, SLASH, "a">> }

\* caller strings naming longer and nested paths:
\* /a/, /aaa, a/a, /a/a, /a/a/a
DeepInputs ==
  { <<SLASH, "a", SLASH>>, <<SLASH, "a", "a", "a">>, <<"a", SLASH, "a">>,
    <<SLASH, "a", SLASH, "a">>,
    <<SLASH, "a", SLASH, "a", SLASH, "a">> }

\* every string a caller passes to an operation of the model
Inputs ==
  UNION { [1..k -> Chars] : k \in 0..MaxLen } \cup DotInputs \cup DeepInputs

(***************************************************************************)
(* strings / path library functions used by multifs.go                     *)
(***************************************************************************)
\* strings.HasPrefix(s, prefix)
HasPrefix(s, prefix) ==
  /\ Len(prefix) <= Len(s)
  /\ \A i \in 1..Len(prefix) : s[i] = prefix[i]

\* strings.TrimPrefix(s, prefix)
TrimPrefix(s, prefix) ==
  IF HasPrefix(s, prefix) THEN SubSeq(s, Len(prefix) + 1, Len(s)) ELSE s

\* strings.Index(s, "/"), 0-based, -1 when absent
Index(s) ==
  IF \E i \in 1..Len(s) : s[i] = SLASH
  THEN (CHOOSE i \in 1..Len(s) :
          s[i] = SLASH /\ \A j \in 1..(i - 1) : s[j] # SLASH) - 1
  ELSE -1

RECURSIVE Split(_, _, _)
\* the elements of s[i..] between separators, cur being the element read so far
Split(s, i, cur) ==
  IF i > Len(s) THEN <<cur>>
  ELSE IF s[i] = SLASH THEN <<cur>> \o Split(s, i + 1, <<>>)
  ELSE Split(s, i + 1, Append(cur, s[i]))

RECURSIVE cleanElems(_, _, _, _)
\* path.Clean rules 2-4 applied to the elements es[i..], out being the
\* elements kept so far
cleanElems(es, i, out, rooted) ==
  IF i > Len(es) THEN out
  ELSE IF es[i] = <<>> \/ es[i] = <<DOT>>
       THEN cleanElems(es, i + 1, out, rooted)
  ELSE IF es[i] = <<DOT, DOT>>
       THEN IF Len(out) > 0 /\ out[Len(out)] # <<DOT, DOT>>
            THEN cleanElems(es, i + 1, SubSeq(out, 1, Len(out) - 1), rooted)
            ELSE IF rooted
                 THEN cleanElems(es, i + 1, out, rooted)
                 ELSE cleanElems(es, i + 1, Append(out, es[i]), rooted)
  ELSE cleanElems(es, i + 1, Append(out, es[i]), rooted)

RECURSIVE Join(_, _)
\* the elements es[i..] joined by single separators
Join(es, i) ==
  IF i > Len(es) THEN <<>>
  ELSE IF i = Len(es) THEN es[i]
  ELSE es[i] \o <<SLASH>> \o Join(es, i + 1)

cleanNone(s) == s

\* path.Clean(s)
Clean(s) ==
  LET rooted == Len(s) > 0 /\ s[1] = SLASH
      body == Join(cleanElems(Split(s, 1, <<>>), 1, <<>>, rooted), 1)
      out == IF rooted THEN <<SLASH>> \o body ELSE body
  IN IF out = <<>> THEN <<DOT>> ELSE out

(***************************************************************************)
(* Results of an operation                                                 *)
(***************************************************************************)
\* what one call returned: err is "nil" or the kind of error; deleg tells
\* whether a backend was called, via / src / rel the binding used, the
\* backend called and the relative path passed; synth tells whether the
\* result was synthesised (pseudo entries or dirFileInfo), list the names
\* of the synthesised entries
Result(err, deleg, via, src, rel, synth, list) ==
  [err |-> err, deleg |-> deleg, via |-> via, src |-> src, rel |-> rel,
   synth |-> synth, list |-> list]

Failure(kind) == Result(kind, FALSE, <<>>, "none", <<>>, FALSE, {})

Success == Result("nil", FALSE, <<>>, "none", <<>>, FALSE, {})

\* fsmap[prefix]; a missing key yields the nil fs.FS
lookup(fm, prefix) == IF prefix \in DOMAIN fm THEN fm[prefix] ELSE "nil"

Delegate(fm, prefix, rel) ==
  Result("nil", TRUE, prefix, lookup(fm, prefix), rel, FALSE, {})

Call(op, name, other, res) ==
  [op |-> op, name |-> name, other |-> other] @@ res

(***************************************************************************)
(* Mount                                                                   *)
(***************************************************************************)
\* the prefix check of Mount and Unmount
validPrefix(prefix) == HasPrefix(prefix, <<SLASH>>)

alreadyMountedNever(fm, prefix) == FALSE

\* _, ok := mfs.fsmap[prefix]
isMounted(fm, prefix) == prefix \in DOMAIN fm

lessShortestFirst(a, b) == Len(a) < Len(b)

\* the less function given to sort.Slice: longest matches come first
less(a, b) == Len(a) > Len(b)

sortedNone(mp) == {mp}

\* the orders sort.Slice may leave mp in: every permutation of mp in which
\* no element is less than an earlier one (sort.Slice is not stable)
Sorted(mp) ==
  { t \in [1..Len(mp) -> {mp[i] : i \in 1..Len(mp)}] :
      /\ \A i \in 1..Len(mp) : \E j \in 1..Len(mp) : t[j] = mp[i]
      /\ \A i, j \in 1..Len(mp) : i < j => ~less(t[j], t[i]) }

Mount(name, other) ==
  LET prefix == Clean(name) IN
  IF ~validPrefix(prefix)
  THEN /\ last' = Call("Mount", name, other, Failure("InvalidPrefix"))
       /\ UNCHANGED <<mountPoints, fsmap>>
  ELSE IF isMounted(fsmap, prefix)
  THEN /\ last' = Call("Mount", name, other, Failure("AlreadyMounted"))
       /\ UNCHANGED <<mountPoints, fsmap>>
  ELSE /\ Len(mountPoints) < MaxMounts
       /\ mountPoints' \in Sorted(Append(mountPoints, prefix))
       /\ fsmap' = [q \in DOMAIN fsmap \cup {prefix} |->
                      IF q = prefix THEN other ELSE fsmap[q]]
       /\ last' = Call("Mount", name, other, Success)

(***************************************************************************)
(* Open                                                                    *)
(***************************************************************************)
relPathKeepSeparator(name, prefix) == TrimPrefix(name, prefix)

\* strings.TrimPrefix(name, prefix+"/"): the path handed to the backend
relPath(name, prefix) == TrimPrefix(name, prefix \o <<SLASH>>)

\* the indices of the bindings whose prefix + "/" starts name
matches(mp, name) ==
  { i \in 1..Len(mp) : HasPrefix(name, mp[i] \o <<SLASH>>) }

\* the first binding, in table order, that the range loop stops at
firstMatch(mp, name) ==
  CHOOSE i \in matches(mp, name) : \A j \in matches(mp, name) : i <= j

openResult(mp, fm, name0) ==
  LET name == Clean(name0) IN
  IF matches(mp, name) = {}
  THEN Failure("NotFound")
  ELSE LET prefix == mp[firstMatch(mp, name)]
       IN Delegate(fm, prefix, relPath(name, prefix))

Open(name) ==
  /\ last' = Call("Open", name, "none", openResult(mountPoints, fsmap, name))
  /\ UNCHANGED <<mountPoints, fsmap>>

(***************************************************************************)
(* Unmount                                                                 *)
(***************************************************************************)
\* the range loop of Unmount: the first index holding prefix, 0 when none
indexOf(mp, prefix) ==
  IF \E i \in 1..Len(mp) : mp[i] = prefix
  THEN CHOOSE i \in 1..Len(mp) :
         mp[i] = prefix /\ \A j \in 1..(i - 1) : mp[j] # prefix
  ELSE 0

removeAtNone(mp, i) == mp

removeAtHead(mp, i) == SubSeq(mp, 2, Len(mp))

deleteNone(fm, prefix) == fm

\* delete(mfs.fsmap, prefix)
delete(fm, prefix) == [q \in DOMAIN fm \ {prefix} |-> fm[q]]

\* append(mfs.mountPoints[:i], mfs.mountPoints[i+1:]...)
removeAt(mp, i) == SubSeq(mp, 1, i - 1) \o SubSeq(mp, i + 1, Len(mp))

Unmount(name) ==
  LET prefix == Clean(name)
      i == indexOf(mountPoints, prefix)
  IN
  IF ~validPrefix(prefix)
  THEN /\ last' = Call("Unmount", name, "none", Failure("InvalidPrefix"))
       /\ UNCHANGED <<mountPoints, fsmap>>
  ELSE IF ~isMounted(fsmap, prefix)
  THEN /\ last' = Call("Unmount", name, "none", Failure("NotMounted"))
       /\ UNCHANGED <<mountPoints, fsmap>>
  ELSE /\ IF i = 0
          THEN UNCHANGED <<mountPoints, fsmap>>
          ELSE /\ mountPoints' = removeAt(mountPoints, i)
               /\ fsmap' = delete(fsmap, prefix)
       /\ last' = Call("Unmount", name, "none", Success)

(***************************************************************************)
(* ReadDir and Stat                                                        *)
(***************************************************************************)
\* the name getPseudoDirEntries records for one mount prefix: the prefix
\* with base + "/" trimmed, cut at its first separator
pseudoName(prefix, base) ==
  LET p == TrimPrefix(prefix, base \o <<SLASH>>)
      i == Index(p)
  IN IF i >= 0 THEN SubSeq(p, 1, i) ELSE p

\* the mount prefixes getPseudoDirEntries does not skip
pseudoMatched(mp, base) ==
  { i \in 1..Len(mp) : base = <<>> \/ HasPrefix(mp[i], base) }

getPseudoDirEntries(mp, base) ==
  [list |-> { pseudoName(mp[i], base) : i \in pseudoMatched(mp, base) },
   matched |-> pseudoMatched(mp, base) # {}]

Synthesized(list) == Result("nil", FALSE, <<>>, "none", <<>>, TRUE, list)

\* if the path is not absolute, assume "/" + name
absolute(name) ==
  IF HasPrefix(name, <<SLASH>>) THEN name ELSE <<SLASH>> \o name

\* the range loop shared by ReadDir and Stat
delegateUnder(mp, fm, name, miss) ==
  IF matches(mp, name) = {}
  THEN miss
  ELSE LET prefix == mp[firstMatch(mp, name)]
       IN Delegate(fm, prefix, relPath(name, prefix))

readDirResult(mp, fm, name0) ==
  LET cleaned == Clean(name0)
      name == absolute(cleaned)
      pseudo == getPseudoDirEntries(mp, name)
  IN
  IF cleaned = <<DOT>> \/ cleaned = <<SLASH>>
  THEN Synthesized(getPseudoDirEntries(mp, <<>>).list)
  ELSE IF name \in DOMAIN fm
  THEN Delegate(fm, name, <<DOT>>)
  ELSE delegateUnder(mp, fm, name,
         IF pseudo.matched THEN Synthesized(pseudo.list)
         ELSE Failure("NotFound"))

ReadDir(name) ==
  /\ last' = Call("ReadDir", name, "none",
                  readDirResult(mountPoints, fsmap, name))
  /\ UNCHANGED <<mountPoints, fsmap>>

statResult(mp, fm, name0) ==
  LET cleaned == Clean(name0)
      name == absolute(cleaned)
  IN
  IF cleaned = <<DOT>> \/ cleaned = <<SLASH>>
  THEN Synthesized({})
  ELSE IF name \in DOMAIN fm
  THEN Delegate(fm, name, <<DOT>>)
  ELSE delegateUnder(mp, fm, name, Failure("NotFound"))

Stat(name) ==
  /\ last' = Call("Stat", name, "none", statResult(mountPoints, fsmap, name))
  /\ UNCHANGED <<mountPoints, fsmap>>

(***************************************************************************)
(* fs.WalkDir over the facade, as the test runs it                         *)
(***************************************************************************)
\* the files of each backend, as paths relative to its root: X is a flat
\* directory, Y holds a file in a subdirectory
Files(b) ==
  IF b = "X" THEN { <<"f">> }
  ELSE IF b = "Y" THEN { <<"a", SLASH, "f">> }
  ELSE {}

\* the directory entry a backend lists for a path rest below the listed
\* directory: its first element, a directory when more elements follow
entryOf(rest) ==
  [name |-> Split(rest, 1, <<>>)[1], dir |-> Index(rest) >= 0]

\* fs.ReadDir(src, rel) on a backend: the entries of directory rel, none
\* when rel is not a directory of the backend
backendEntries(b, rel) ==
  IF rel = <<DOT>>
  THEN { entryOf(f) : f \in Files(b) }
  ELSE { entryOf(SubSeq(f, Len(rel) + 2, Len(f))) :
           f \in { g \in Files(b) : HasPrefix(g, rel \o <<SLASH>>) } }

\* whether fs.ReadDir(src, rel) on a backend returns an error
backendFails(b, rel) ==
  rel # <<DOT>> /\ \A g \in Files(b) : ~HasPrefix(g, rel \o <<SLASH>>)

\* the entries mfs.ReadDir(name) gives the walk, and whether it failed
walkList(mp, fm, name) ==
  LET r == readDirResult(mp, fm, name) IN
  IF r.err # "nil" THEN [failed |-> TRUE, entries |-> {}]
  ELSE IF r.deleg
  THEN [failed |-> backendFails(r.src, r.rel),
        entries |-> backendEntries(r.src, r.rel)]
  ELSE [failed |-> FALSE,
        entries |-> { [name |-> n, dir |-> TRUE] : n \in r.list }]

\* path.Join(dir, elem)
pathJoin(dir, elem) ==
  IF elem = <<>> THEN Clean(dir) ELSE Clean(dir \o <<SLASH>> \o elem)

\* reported in place of the names of a walk that does not return
NoReturn == <<"*">>

RECURSIVE walkDir(_, _, _, _)
RECURSIVE walkEntries(_, _, _, _)
\* fs.walkDir: the names the callback is called with, in call order, for
\* the entry name; a child whose joined name is name itself restarts the
\* same walk and so never returns
walkDir(mp, fm, name, isDir) ==
  IF ~isDir THEN <<name>>
  ELSE LET l == walkList(mp, fm, name) IN
       IF l.failed THEN <<name, name>>
       ELSE <<name>> \o walkEntries(mp, fm, name, l.entries)

\* the walks of the entries es of directory name, one after the other
walkEntries(mp, fm, name, es) ==
  IF es = {} THEN <<>>
  ELSE LET e == CHOOSE x \in es : TRUE
           child == pathJoin(name, e.name)
       IN (IF child = name THEN <<NoReturn>>
           ELSE walkDir(mp, fm, child, e.dir))
          \o walkEntries(mp, fm, name, es \ {e})

\* how often each name was reported: pairs <<name, count>>
counts(seq) ==
  { <<seq[i], Cardinality({ j \in 1..Len(seq) : seq[j] = seq[i] })>> :
      i \in 1..Len(seq) }

walkResult(mp, fm) ==
  LET seq == walkDir(mp, fm, <<DOT>>, TRUE) IN
  Result(IF \E i \in 1..Len(seq) : seq[i] = NoReturn
         THEN "NoReturn" ELSE "nil",
         FALSE, <<>>, "none", <<>>, FALSE, counts(seq))

\* fs.WalkDir(&mfs, ".", fn)
WalkDir ==
  /\ last' = Call("WalkDir", <<DOT>>, "none", walkResult(mountPoints, fsmap))
  /\ UNCHANGED <<mountPoints, fsmap>>

(***************************************************************************)
(* Concurrent callers: mfs.mu and the steps of each method                 *)
(***************************************************************************)
Procs == 1..NumProcs

Reads == {"Open", "ReadDir", "Stat"}

\* the arguments concurrent callers pass: a relative, a top-level and a
\* nested prefix for Mount and Unmount, one nested name for the lookups
ConcPrefixes == { <<"a">>, <<SLASH, "a">>, <<SLASH, "a", SLASH, "a">> }

\* the prefixes of the fair runs: one that fails the prefix check and one
\* that is mounted and unmounted
FairPrefixes == { <<"a">>, <<SLASH, "a">> }

ConcNames == { <<SLASH, "a", SLASH, "a">> }

ConcBackends == {"X"}

\* sync.RWMutex: w is the goroutine that holds or awaits the write lock
\* (0 when none), readers the goroutines holding the read lock
Unlocked == [w |-> 0, readers |-> {}]

\* a goroutine outside any call
Idle ==
  [pc |-> "idle", op |-> "none", name |-> <<>>, other |-> "none",
   via |-> <<>>, src |-> "none"]

canLockAlways(m) == TRUE

\* mfs.mu.Lock(): the write lock is taken by one goroutine at a time
canLock(m) == m.w = 0

canRLockAlways(m) == TRUE

\* mfs.mu.RLock(): blocked while a writer holds or awaits the lock
canRLock(m) == m.w = 0

\* mfs.mu.Lock() returns once the readers that held the lock have left
drained(m) == m.readers = {}

unlockNone(m, p) == m

\* defer mfs.mu.Unlock()
unlock(m, p) == [m EXCEPT !.w = 0]

\* defer mfs.mu.RUnlock()
runlock(m, p) == [m EXCEPT !.readers = @ \ {p}]

goto(p, pc) == proc' = [proc EXCEPT ![p].pc = pc]

\* a goroutine enters Mount or Unmount
CallWrite(p) ==
  /\ proc[p].pc = "idle"
  /\ \E op \in {"Mount", "Unmount"}, name \in ConcPrefixes,
        other \in ConcBackends :
       proc' = [proc EXCEPT ![p] =
                  [Idle EXCEPT !.pc = "start", !.op = op, !.name = name,
                     !.other = IF op = "Mount" THEN other ELSE "none"]]
  /\ UNCHANGED <<mountPoints, fsmap, last, mu>>

\* a goroutine enters Open, ReadDir or Stat
CallRead(p) ==
  /\ proc[p].pc = "idle"
  /\ \E op \in {"Open", "ReadDir", "Stat"}, name \in ConcNames :
       proc' = [proc EXCEPT ![p] =
                  [Idle EXCEPT !.pc = "rlock", !.op = op, !.name = name]]
  /\ UNCHANGED <<mountPoints, fsmap, last, mu>>

\* Mount / Unmount: path.Clean and the prefix check, before the lock
CheckPrefix(p) ==
  /\ proc[p].pc = "start"
  /\ IF validPrefix(Clean(proc[p].name))
     THEN goto(p, "lock")
     ELSE proc' = [proc EXCEPT ![p] = Idle]
  /\ UNCHANGED <<mountPoints, fsmap, last, mu>>

\* mfs.mu.Lock(), first half: the goroutine becomes the writer
Lock(p) ==
  /\ proc[p].pc = "lock"
  /\ canLock(mu)
  /\ mu' = [mu EXCEPT !.w = p]
  /\ goto(p, "drain")
  /\ UNCHANGED <<mountPoints, fsmap, last>>

\* mfs.mu.Lock(), second half: the readers have left
LockDrained(p) ==
  /\ proc[p].pc = "drain"
  /\ drained(mu)
  /\ goto(p, "check")
  /\ UNCHANGED <<mountPoints, fsmap, last, mu>>

\* Mount: the lookup of the prefix in fsmap
MountCheck(p) ==
  /\ proc[p].pc = "check" /\ proc[p].op = "Mount"
  /\ IF isMounted(fsmap, Clean(proc[p].name))
     THEN goto(p, "unlock")
     ELSE goto(p, "insert")
  /\ UNCHANGED <<mountPoints, fsmap, last, mu>>

\* Mount: append, sort and store the list
MountInsert(p) ==
  /\ proc[p].pc = "insert"
  /\ mountPoints' \in Sorted(Append(mountPoints, Clean(proc[p].name)))
  /\ goto(p, "bind")
  /\ UNCHANGED <<fsmap, last, mu>>

\* Mount: mfs.fsmap[prefix] = other
MountBind(p) ==
  /\ proc[p].pc = "bind"
  /\ fsmap' = [q \in DOMAIN fsmap \cup {Clean(proc[p].name)} |->
                 IF q = Clean(proc[p].name) THEN proc[p].other
                 ELSE fsmap[q]]
  /\ goto(p, "unlock")
  /\ UNCHANGED <<mountPoints, last, mu>>

\* Unmount: the lookup of the prefix in fsmap
UnmountCheck(p) ==
  /\ proc[p].pc = "check" /\ proc[p].op = "Unmount"
  /\ IF isMounted(fsmap, Clean(proc[p].name))
     THEN goto(p, "remove")
     ELSE goto(p, "unlock")
  /\ UNCHANGED <<mountPoints, fsmap, last, mu>>

\* Unmount: the loop finds the prefix and cuts it out of the list
UnmountRemove(p) ==
  /\ proc[p].pc = "remove"
  /\ LET i == indexOf(mountPoints, Clean(proc[p].name)) IN
     IF i = 0
     THEN goto(p, "unlock") /\ UNCHANGED mountPoints
     ELSE goto(p, "delete") /\ mountPoints' = removeAt(mountPoints, i)
  /\ UNCHANGED <<fsmap, last, mu>>

\* Unmount: delete(mfs.fsmap, prefix)
UnmountDelete(p) ==
  /\ proc[p].pc = "delete"
  /\ fsmap' = delete(fsmap, Clean(proc[p].name))
  /\ goto(p, "unlock")
  /\ UNCHANGED <<mountPoints, last, mu>>

\* Mount / Unmount return: the deferred Unlock runs
Unlock(p) ==
  /\ proc[p].pc = "unlock"
  /\ mu' = unlock(mu, p)
  /\ proc' = [proc EXCEPT ![p] = Idle]
  /\ UNCHANGED <<mountPoints, fsmap, last>>

\* mfs.mu.RLock()
RLock(p) ==
  /\ proc[p].pc = "rlock"
  /\ canRLock(mu)
  /\ mu' = [mu EXCEPT !.readers = @ \cup {p}]
  /\ goto(p, "resolve")
  /\ UNCHANGED <<mountPoints, fsmap, last>>

\* what the method of a reading goroutine finds in the table
resolved(op, mp, fm, name) ==
  IF op = "Open" THEN openResult(mp, fm, name)
  ELSE IF op = "ReadDir" THEN readDirResult(mp, fm, name)
  ELSE statResult(mp, fm, name)

\* the prefixes a concurrent Mount can put in the table
ConcMounted == { Clean(s) : s \in { t \in ConcPrefixes : validPrefix(Clean(t)) } }

\* the tables a reading goroutine can find under the lock
ConcLists ==
  { mp \in UNION { [1..k -> ConcMounted] : k \in 0..Cardinality(ConcMounted) } :
      \A i, j \in 1..Len(mp) : i # j => mp[i] # mp[j] }

ConcMaps == UNION { [ps -> ConcBackends] : ps \in SUBSET ConcMounted }

\* resolved, tabulated over these tables
resolvedTable ==
  { <<k, resolved(k[1], k[2], k[3], k[4])>> :
      k \in Reads \X ConcLists \X ConcMaps \X ConcNames }

resolvedIn(op, mp, fm, name) ==
  IF \E e \in resolvedTable : e[1] = <<op, mp, fm, name>>
  THEN (CHOOSE e \in resolvedTable : e[1] = <<op, mp, fm, name>>)[2]
  ELSE resolved(op, mp, fm, name)

\* Open / ReadDir / Stat: the path is matched against the table and, when
\* a binding matches, the backend is called
Resolve(p) ==
  /\ proc[p].pc = "resolve"
  /\ LET r == resolvedIn(proc[p].op, mountPoints, fsmap, proc[p].name) IN
     IF r.deleg
     THEN proc' = [proc EXCEPT ![p].pc = "backend",
                               ![p].via = r.via, ![p].src = r.src]
     ELSE goto(p, "runlock")
  /\ UNCHANGED <<mountPoints, fsmap, last, mu>>

\* the backend call returns
BackendReturn(p) ==
  /\ proc[p].pc = "backend"
  /\ proc' = [proc EXCEPT ![p].pc = "runlock",
                          ![p].via = <<>>, ![p].src = "none"]
  /\ UNCHANGED <<mountPoints, fsmap, last, mu>>

\* Open / ReadDir / Stat return: the deferred RUnlock runs
RUnlock(p) ==
  /\ proc[p].pc = "runlock"
  /\ mu' = runlock(mu, p)
  /\ proc' = [proc EXCEPT ![p] = Idle]
  /\ UNCHANGED <<mountPoints, fsmap, last>>

\* the steps of a call that do not wait for the lock
Advance(p) ==
  \/ CheckPrefix(p)
  \/ LockDrained(p)
  \/ MountCheck(p) \/ MountInsert(p) \/ MountBind(p)
  \/ UnmountCheck(p) \/ UnmountRemove(p) \/ UnmountDelete(p)
  \/ Unlock(p)
  \/ Resolve(p) \/ BackendReturn(p) \/ RUnlock(p)

\* the steps of a call that acquire the lock
Acquire(p) == Lock(p) \/ RLock(p)

(***************************************************************************)
(* Specification                                                           *)
(***************************************************************************)
Init ==
  /\ mountPoints = <<>>
  /\ fsmap = <<>>
  /\ last = Call("New", <<>>, "none", Success)
  /\ mu = Unlocked
  /\ proc = [p \in Procs |-> Idle]

\* one caller, each call running from entry to return
Next ==
  \/ \E name \in Inputs, other \in Backends :
       Mount(name, other) /\ UNCHANGED <<mu, proc>>
  \/ \E name \in Inputs : Unmount(name) /\ UNCHANGED <<mu, proc>>
  \/ \E name \in Inputs : Open(name) /\ UNCHANGED <<mu, proc>>
  \/ \E name \in Inputs : ReadDir(name) /\ UNCHANGED <<mu, proc>>
  \/ \E name \in Inputs : Stat(name) /\ UNCHANGED <<mu, proc>>
  \/ WalkDir /\ UNCHANGED <<mu, proc>>

Spec == Init /\ [][Next]_vars

\* concurrent callers, interleaved step by step
NextConc ==
  \E p \in Procs :
    \/ CallWrite(p)
    \/ CallRead(p)
    \/ CheckPrefix(p)
    \/ Lock(p)
    \/ LockDrained(p)
    \/ MountCheck(p)
    \/ MountInsert(p)
    \/ MountBind(p)
    \/ UnmountCheck(p)
    \/ UnmountRemove(p)
    \/ UnmountDelete(p)
    \/ Unlock(p)
    \/ RLock(p)
    \/ Resolve(p)
    \/ BackendReturn(p)
    \/ RUnlock(p)

SpecConc == Init /\ [][NextConc]_vars

\* the same callers, Mount and Unmount taking their prefix in FairPrefixes
NextFair ==
  \E p \in Procs :
    \/ CallWrite(p) /\ proc'[p].name \in FairPrefixes
    \/ CallRead(p)
    \/ Advance(p)
    \/ Acquire(p)

\* the Go scheduler runs every runnable goroutine (weak fairness of the
\* steps that do not block) and the mutex hands the lock to every waiter
\* in turn (strong fairness of the acquisitions)
SpecConcFair ==
  /\ Init /\ [][NextFair]_vars
  /\ \A p \in Procs : WF_vars(Advance(p)) /\ SF_vars(Acquire(p))

(***************************************************************************)
(* Vocabulary of the properties                                            *)
(***************************************************************************)
P_root == <<SLASH>>
P_a == <<SLASH, "a">>
P_aaa == <<SLASH, "a", "a", "a">>
P_a_a == <<SLASH, "a", SLASH, "a">>
P_a_a_a == <<SLASH, "a", SLASH, "a", SLASH, "a">>


\* name lies below prefix p: it starts with p + "/"
Under(name, p) == HasPrefix(name, p \o <<SLASH>>)

\* the mounted prefixes (keys of fm) that name lies below
Ancestors(fm, name) == { p \in DOMAIN fm : Under(name, p) }

\* the longest of a non-empty set of prefixes
Longest(ps) == CHOOSE p \in ps : \A q \in ps : Len(q) <= Len(p)

\* the mounted prefixes that lie below q
Descendants(fm, q) == { p \in DOMAIN fm : Under(p, q) }

\* the path segment of p that follows its ancestor q
NextSegment(p, q) ==
  Split(SubSeq(p, Len(q) + 2, Len(p)), 1, <<>>)[1]

\* the name a listing or stat call looks up, root excluded
IsRootName(name0) == Clean(name0) \in {<<DOT>>, <<SLASH>>}

(***************************************************************************)
(* C1                                                                      *)
(***************************************************************************)
\* C1: whenever Open is called with a path that lies below at least one
\* mounted prefix, the call is delegated to the backend bound to the longest
\* such prefix p, with the normalized path minus p + "/" as relative path,
\* whatever the order of the mounts.
C1_LongestPrefix ==
  (last.op = "Open" /\ Ancestors(fsmap, Clean(last.name)) # {}) =>
    LET name == Clean(last.name)
        p == Longest(Ancestors(fsmap, name))
    IN /\ last.err = "nil" /\ last.deleg
       /\ last.via = p
       /\ last.src = fsmap[p]
       /\ last.rel = SubSeq(name, Len(p) + 2, Len(name))

\* /a bound to X, /a/a bound to Y, Open("/a/a/a") handed to Y as "a"
C1_Witness ==
  /\ last.op = "Open" /\ last.name = P_a_a_a
  /\ DOMAIN fsmap = {P_a, P_a_a}
  /\ fsmap[P_a] = "X" /\ fsmap[P_a_a] = "Y"
  /\ last.src = "Y" /\ last.rel = <<"a">>

(***************************************************************************)
(* C2                                                                      *)
(***************************************************************************)
\* C2: a Mount call fails with AlreadyMounted exactly when the normalized
\* prefix is bound before the call, and succeeds, binding the normalized
\* prefix to the given backend, when the normalized prefix is absolute and
\* not bound before the call.
C2_MountOutcome ==
  [][ last'.op = "Mount" =>
        LET p == Clean(last'.name) IN
        /\ (last'.err = "AlreadyMounted") <=> (p \in DOMAIN fsmap)
        /\ (HasPrefix(p, <<SLASH>>) /\ p \notin DOMAIN fsmap) =>
             /\ last'.err = "nil"
             /\ p \in DOMAIN fsmap'
             /\ fsmap'[p] = last'.other ]_vars

\* Mount("/a/") refused because /a is bound
C2_Witness ==
  /\ last.op = "Mount" /\ last.name = <<SLASH, "a", SLASH>>
  /\ last.err = "AlreadyMounted"
  /\ P_a \in DOMAIN fsmap

(***************************************************************************)
(* C3                                                                      *)
(***************************************************************************)
\* C3 as stated: an Unmount call fails with NotMounted exactly when the
\* normalized prefix is not bound before the call, and succeeds exactly
\* when it is bound.
C3_AsStated ==
  [][ last'.op = "Unmount" =>
        LET p == Clean(last'.name) IN
        /\ (last'.err = "NotMounted") <=> (p \notin DOMAIN fsmap)
        /\ (last'.err = "nil") <=> (p \in DOMAIN fsmap) ]_vars

\* C3 amended: an Unmount call succeeds exactly when the normalized prefix
\* is bound before the call and then leaves it unbound (so an immediate
\* second Unmount fails); it fails with NotMounted exactly when the
\* normalized prefix is absolute and not bound, a prefix that does not
\* normalize to an absolute path failing with InvalidPrefix instead.
C3_UnmountOutcome ==
  [][ last'.op = "Unmount" =>
        LET p == Clean(last'.name) IN
        /\ (last'.err = "nil") <=> (p \in DOMAIN fsmap)
        /\ (last'.err = "NotMounted") <=>
             (HasPrefix(p, <<SLASH>>) /\ p \notin DOMAIN fsmap)
        /\ (last'.err = "InvalidPrefix") <=> ~HasPrefix(p, <<SLASH>>)
        /\ (last'.err = "nil") => (p \notin DOMAIN fsmap') ]_vars

\* Unmount("/a/") refused on a table that does not bind /a
C3_Witness ==
  /\ last.op = "Unmount" /\ last.name = <<SLASH, "a", SLASH>>
  /\ last.err = "NotMounted"
  /\ P_a \notin DOMAIN fsmap

(***************************************************************************)
(* C4                                                                      *)
(***************************************************************************)
\* C4: Open of a path equal to a mounted prefix is delegated to that
\* prefix's backend with relative path "." and does not fail with NotFound.
C4_OpenMountPoint ==
  (last.op = "Open" /\ Clean(last.name) \in DOMAIN fsmap) =>
    /\ last.err = "nil" /\ last.deleg
    /\ last.via = Clean(last.name)
    /\ last.src = fsmap[Clean(last.name)]
    /\ last.rel = <<DOT>>

(***************************************************************************)
(* C5                                                                      *)
(***************************************************************************)
\* C5: a successful Unmount(p) leaves p out of the table; a prefix enters
\* the table only by a Mount of it; and every Open / ReadDir / Stat call
\* that is delegated goes through a binding of the table it is called on,
\* Open failing with NotFound when no bound prefix is an ancestor of the
\* path and using the longest bound ancestor otherwise.
C5_NoUseAfterUnmount ==
  [][ /\ (last'.op = "Unmount" /\ last'.err = "nil") =>
           /\ Clean(last'.name) \notin DOMAIN fsmap'
           /\ \A i \in 1..Len(mountPoints') :
                mountPoints'[i] # Clean(last'.name)
      /\ \A p \in DOMAIN fsmap' \ DOMAIN fsmap :
           last'.op = "Mount" /\ Clean(last'.name) = p
      /\ (last'.op \in Reads /\ last'.deleg) =>
           /\ last'.via \in DOMAIN fsmap
           /\ last'.src = fsmap[last'.via]
      /\ (last'.op = "Open") =>
           LET as == Ancestors(fsmap, Clean(last'.name)) IN
           IF as = {} THEN last'.err = "NotFound" /\ ~last'.deleg
           ELSE last'.deleg /\ last'.via = Longest(as) ]_vars

\* Unmount("/a/a") has succeeded and its ancestor /a is still bound
C5_Witness ==
  /\ last.op = "Unmount" /\ last.name = P_a_a /\ last.err = "nil"
  /\ DOMAIN fsmap = {P_a}
  /\ mountPoints = <<P_a>>

(***************************************************************************)
(* C6                                                                      *)
(***************************************************************************)
\* C6: ReadDir(".") and ReadDir("/") succeed and list exactly the distinct
\* first path segments of the mounted prefixes, with no empty-named entry
\* (and nothing at all on an empty table).
C6_RootListing ==
  (last.op = "ReadDir" /\ IsRootName(last.name)) =>
    /\ last.err = "nil"
    /\ last.list = { NextSegment(p, <<>>) : p \in DOMAIN fsmap \ {P_root} }
    /\ <<>> \notin last.list

(***************************************************************************)
(* C7                                                                      *)
(***************************************************************************)
\* C7: ReadDir of a non-root path fails with NotFound when the path is not
\* a mounted prefix, lies below no mounted prefix and is not a strict
\* path-segment ancestor of a mounted prefix.
C7_ReadDirNotFound ==
  LET name == absolute(Clean(last.name)) IN
  ( /\ last.op = "ReadDir" /\ ~IsRootName(last.name)
    /\ name \notin DOMAIN fsmap
    /\ Ancestors(fsmap, name) = {}
    /\ Descendants(fsmap, name) = {} ) =>
    last.err = "NotFound"

(***************************************************************************)
(* C8                                                                      *)
(***************************************************************************)
\* C8: ReadDir of a non-root path q that is not a mounted prefix and is a
\* strict ancestor of mounted prefixes returns exactly the next segments,
\* after q, of the mounted prefixes below q.
C8_AncestorListing ==
  LET q == absolute(Clean(last.name)) IN
  ( /\ last.op = "ReadDir" /\ ~IsRootName(last.name)
    /\ q \notin DOMAIN fsmap
    /\ Descendants(fsmap, q) # {} ) =>
    /\ last.err = "nil" /\ last.synth
    /\ last.list = { NextSegment(p, q) : p \in Descendants(fsmap, q) }

(***************************************************************************)
(* C9                                                                      *)
(***************************************************************************)
\* C9: Stat succeeds exactly when ReadDir of the same path on the same
\* table resolves the path, and for a strict ancestor of a mounted prefix
\* that is not itself mounted it returns a synthetic directory descriptor.
C9_StatLikeReadDir ==
  LET q == absolute(Clean(last.name)) IN
  (last.op = "Stat") =>
    /\ (last.err = "nil") <=>
         (readDirResult(mountPoints, fsmap, last.name).err = "nil")
    /\ ( /\ ~IsRootName(last.name)
         /\ q \notin DOMAIN fsmap
         /\ Descendants(fsmap, q) # {} ) =>
         (last.err = "nil" /\ last.synth)

(***************************************************************************)
(* C10                                                                     *)
(***************************************************************************)
\* C10: ReadDir hands a path to the backend of an enclosing mount only when
\* the path is neither a mounted prefix nor an ancestor of another mount.
C10_DelegateOnlyLeaf ==
  LET q == absolute(Clean(last.name)) IN
  (last.op = "ReadDir" /\ last.deleg /\ last.via # q) =>
    /\ q \notin DOMAIN fsmap
    /\ Descendants(fsmap, q) = {}


(***************************************************************************)
(* C11                                                                     *)
(***************************************************************************)
\* r is a non-empty slash-separated path without a leading separator whose
\* elements are all proper names
NormalRelative(r) ==
  /\ r # <<>>
  /\ \A i \in 1..Len(Split(r, 1, <<>>)) :
       Split(r, 1, <<>>)[i] \notin {<<>>, <<DOT>>, <<DOT, DOT>>}

\* p is "/" or "/" followed by a normalized relative path
NormalAbsolute(p) ==
  \/ p = <<SLASH>>
  \/ Len(p) > 1 /\ p[1] = SLASH /\ NormalRelative(Tail(p))

\* C11: every path handed to a backend by Open, ReadDir or Stat is either
\* "." (the call names the mount point itself) or a non-empty normalized
\* path without leading "/", which, appended to the matched prefix and one
\* separator, gives back the caller's normalized path.
C11_RelativeBackendPath ==
  (last.op \in Reads /\ last.deleg) =>
    LET n == IF last.op = "Open" THEN Clean(last.name)
             ELSE absolute(Clean(last.name))
    IN \/ last.rel = <<DOT>> /\ last.via = n
       \/ /\ NormalRelative(last.rel)
          /\ last.via \o <<SLASH>> \o last.rel = n

\* ReadDir("a/a") handed to the backend of /a as "a"
C11_Witness ==
  /\ last.op = "ReadDir" /\ last.name = <<"a", SLASH, "a">>
  /\ last.deleg /\ last.via = P_a /\ last.rel = <<"a">>

(***************************************************************************)
(* C12                                                                     *)
(***************************************************************************)
\* the files the mounted backends hold, by their path in the facade
MountedFiles(fm) ==
  UNION { { p \o <<SLASH>> \o f : f \in Files(fm[p]) } : p \in DOMAIN fm }

\* C12: a walk from the root returns, reports every file of every mounted
\* backend exactly once, and reports nothing but the root, these files and
\* their ancestor directories.
C12_WalkComplete ==
  (last.op = "WalkDir") =>
    /\ last.err = "nil"
    /\ \A e \in MountedFiles(fsmap) : <<Tail(e), 1>> \in last.list
    /\ \A v \in last.list :
         \/ v[1] = <<DOT>>
         \/ \E e \in MountedFiles(fsmap) :
              e = <<SLASH>> \o v[1] \/ Under(e, <<SLASH>> \o v[1])

(***************************************************************************)
(* C13                                                                     *)
(***************************************************************************)
\* goroutine p is inside a backend call made through the facade
InBackend(p) == proc[p].pc = "backend"

\* goroutine q returns from Mount or Unmount in this step
WriterReturns(q) == proc[q].pc = "unlock" /\ proc'[q].pc = "idle"

\* C13: while a backend call made by Open, ReadDir or Stat is in progress
\* the caller holds the read lock, the binding it resolved is still in the
\* table, no step changes the table and no Mount or Unmount that took the
\* lock returns; and when an Unmount returns, no backend call resolved
\* through the prefix it named is in progress.
C13_LockAcrossDelegation ==
  /\ [](\A p \in Procs : InBackend(p) =>
          /\ p \in mu.readers
          /\ proc[p].via \in DOMAIN fsmap
          /\ fsmap[proc[p].via] = proc[p].src)
  /\ [][ /\ (\E p \in Procs : InBackend(p)) =>
              /\ mountPoints' = mountPoints /\ fsmap' = fsmap
              /\ \A q \in Procs : ~WriterReturns(q)
         /\ \A q \in Procs :
              (WriterReturns(q) /\ proc[q].op = "Unmount") =>
                \A r \in Procs :
                  ~(proc'[r].pc = "backend"
                      /\ proc'[r].via = Clean(proc[q].name)) ]_vars

\* a backend call through /a is in progress while an Unmount("/a") waits
\* for the readers to leave
C13_Witness ==
  \E p, q \in Procs :
    /\ InBackend(p) /\ proc[p].via = P_a
    /\ proc[q].pc = "drain" /\ proc[q].op = "Unmount" /\ proc[q].name = P_a

(***************************************************************************)
(* C14                                                                     *)
(***************************************************************************)
\* the positions of Mount and Unmount between Lock and Unlock
WriteSection == {"check", "insert", "bind", "remove", "delete", "unlock"}

\* the positions of Open, ReadDir and Stat between RLock and RUnlock
ReadSection == {"resolve", "backend", "runlock"}

\* C14: a goroutine between Lock and Unlock of Mount or Unmount is alone in
\* any critical section; whenever a reader is in its critical section the
\* mount list and the prefix-to-backend map hold the same prefixes, each
\* once; and a Mount about to insert its prefix still finds it absent, so
\* two concurrent Mounts of one prefix never both insert it.
C14_MutationAtomic ==
  /\ \A p \in Procs : proc[p].pc \in WriteSection =>
       /\ mu.w = p /\ mu.readers = {}
       /\ \A q \in Procs \ {p} :
            proc[q].pc \notin WriteSection \cup ReadSection
  /\ (\E p \in Procs : proc[p].pc \in ReadSection) =>
       /\ { mountPoints[i] : i \in 1..Len(mountPoints) } = DOMAIN fsmap
       /\ \A i, j \in 1..Len(mountPoints) :
            mountPoints[i] = mountPoints[j] => i = j
  /\ \A p \in Procs : proc[p].pc = "insert" =>
       /\ Clean(proc[p].name) \notin DOMAIN fsmap
       /\ \A i \in 1..Len(mountPoints) :
            mountPoints[i] # Clean(proc[p].name)
  /\ \A i, j \in 1..Len(mountPoints) :
       mountPoints[i] = mountPoints[j] => i = j

\* a Mount("/a") has stored the list but not yet the map while another
\* Mount("/a") waits for the lock
C14_Witness ==
  \E p, q \in Procs :
    /\ p # q
    /\ proc[p].pc = "bind" /\ proc[p].name = P_a
    /\ proc[q].pc = "lock" /\ proc[q].op = "Mount" /\ proc[q].name = P_a

(***************************************************************************)
(* C15                                                                     *)
(***************************************************************************)
\* C15: in every reachable state the mount list is in non-increasing order
\* of prefix length, so a mounted prefix stands before every mounted prefix
\* that is its ancestor; this holds after Mount and after Unmount alike.
C15_LongestFirst ==
  /\ \A i, j \in 1..Len(mountPoints) :
       i < j => Len(mountPoints[i]) >= Len(mountPoints[j])
  /\ \A i, j \in 1..Len(mountPoints) :
       Under(mountPoints[i], mountPoints[j]) => i < j

\* an Unmount has left /a/a before its ancestor /a
C15_Witness ==
  /\ last.op = "Unmount" /\ last.err = "nil"
  /\ mountPoints = <<P_a_a, P_a>>

(***************************************************************************)
(* C16                                                                     *)
(***************************************************************************)
\* C16: a Mount or Unmount call that returns an error leaves the mount list
\* and the prefix-to-backend map as they were, and a Mount of a prefix that
\* is already bound is such a call: the bound backend is not replaced.
C16_FailureKeepsTable ==
  [][ /\ (last'.op \in {"Mount", "Unmount"} /\ last'.err # "nil") =>
           (mountPoints' = mountPoints /\ fsmap' = fsmap)
      /\ (last'.op = "Mount" /\ Clean(last'.name) \in DOMAIN fsmap) =>
           /\ last'.err = "AlreadyMounted"
           /\ mountPoints' = mountPoints
           /\ fsmap' = fsmap ]_vars

\* Mount("/a/", Y) refused while /a stays bound to X
C16_Witness ==
  /\ last.op = "Mount" /\ last.name = <<SLASH, "a", SLASH>>
  /\ last.other = "Y"
  /\ last.err = "AlreadyMounted"
  /\ P_a \in DOMAIN fsmap /\ fsmap[P_a] = "X"

(***************************************************************************)
(* C17                                                                     *)
(***************************************************************************)
\* the prefixes held by the mount list mp
Listed(mp) == { mp[i] : i \in 1..Len(mp) }

\* the longest-first orders of the prefixes held by mp
Orders(mp) ==
  { t \in [1..Len(mp) -> Listed(mp)] :
      /\ Listed(t) = Listed(mp)
      /\ \A i, j \in 1..Len(mp) : i < j => Len(t[i]) >= Len(t[j]) }

\* fm without the key p
Without(fm, p) == [q \in DOMAIN fm \ {p} |-> fm[q]]

\* C17: a successful Mount(p, b) adds the binding of Clean(p) to b and
\* nothing else, a successful Unmount(p) removes the binding of Clean(p) and
\* nothing else, and what Open, ReadDir and Stat return for a path depends
\* on the set of bindings only, not on the order equal-length prefixes were
\* left in; so Mount followed by Unmount restores bindings and resolution.
C17_ExactlyOneBinding ==
  /\ [](\A t \in Orders(mountPoints) : \A name \in Inputs :
          /\ openResult(t, fsmap, name)
               = openResult(mountPoints, fsmap, name)
          /\ readDirResult(t, fsmap, name)
               = readDirResult(mountPoints, fsmap, name)
          /\ statResult(t, fsmap, name)
               = statResult(mountPoints, fsmap, name))
  /\ [][ LET p == Clean(last'.name) IN
         /\ (last'.op = "Mount" /\ last'.err = "nil") =>
              /\ p \notin DOMAIN fsmap
              /\ DOMAIN fsmap' = DOMAIN fsmap \cup {p}
              /\ fsmap'[p] = last'.other
              /\ Without(fsmap', p) = fsmap
              /\ Listed(mountPoints') = Listed(mountPoints) \cup {p}
              /\ Len(mountPoints') = Len(mountPoints) + 1
         /\ (last'.op = "Unmount" /\ last'.err = "nil") =>
              /\ p \in DOMAIN fsmap
              /\ fsmap' = Without(fsmap, p)
              /\ Listed(mountPoints') = Listed(mountPoints) \ {p}
              /\ Len(mountPoints') = Len(mountPoints) - 1 ]_vars

\* an Unmount has left the two equal-length bindings /a/a and /aaa, in the
\* order opposite to the one they were mounted in
C17_Witness ==
  /\ last.op = "Unmount" /\ last.err = "nil"
  /\ mountPoints = <<P_aaa, P_a_a>>
  /\ fsmap[P_aaa] = "X" /\ fsmap[P_a_a] = "Y"

(***************************************************************************)
(* C18                                                                     *)
(***************************************************************************)
\* C18: in every reachable state the mount list holds no prefix twice, the
\* prefixes it holds are exactly the keys of the prefix-to-backend map, and
\* each of them is a normalized absolute path.
C18_TableConsistent ==
  /\ \A i, j \in 1..Len(mountPoints) :
       mountPoints[i] = mountPoints[j] => i = j
  /\ Listed(mountPoints) = DOMAIN fsmap
  /\ \A p \in DOMAIN fsmap : NormalAbsolute(p)

\* three bindings, the latest mounted under the unnormalized name "/a/"
C18_Witness ==
  /\ last.op = "Mount" /\ last.name = <<SLASH, "a", SLASH>>
  /\ last.err = "nil"
  /\ Len(mountPoints) = 3

(***************************************************************************)
(* C19                                                                     *)
(***************************************************************************)
\* C19: Open resolves a name to the same binding and the same relative path
\* as Stat and ReadDir do for that name on the same table, names without a
\* leading slash included.
C19_SameResolution ==
  (last.op = "Open") =>
    LET st == statResult(mountPoints, fsmap, last.name)
        rd == readDirResult(mountPoints, fsmap, last.name)
    IN /\ <<last.deleg, last.via, last.rel>> = <<st.deleg, st.via, st.rel>>
       /\ <<last.deleg, last.via, last.rel>> = <<rd.deleg, rd.via, rd.rel>>

(***************************************************************************)
(* C20                                                                     *)
(***************************************************************************)
\* goroutine p is inside a call
Busy(p) == proc[p].pc # "idle"

\* C20: under fair scheduling every call that was entered returns, whatever
\* it returns, the lock is free whenever no call is running, and in every
\* state with a running call some running call can take a step.
C20_Progress ==
  /\ \A p \in Procs : Busy(p) ~> ~Busy(p)
  /\ []((\A p \in Procs : ~Busy(p)) => mu = Unlocked)
  /\ []((\E p \in Procs : Busy(p)) =>
          \E p \in Procs : ENABLED (Advance(p) \/ Acquire(p)))

\* a failed Mount is about to return while another caller waits for the lock
C20_Witness ==
  \E p, q \in Procs :
    /\ proc[p].pc = "unlock" /\ proc[p].op = "Mount"
    /\ Clean(proc[p].name) \in DOMAIN fsmap
    /\ proc[q].pc = "rlock"

====
